---- MODULE Spec2Model ----
(***************************************************************************)
(* A model of the BEAR AI assistant front end: the App component           *)
(* (handleSendMessage, handleFileUpload, handleNewChat), the zustand       *)
(* store (appStore.ts), the ModelSelector component and the PIIGuard       *)
(* pattern scanner.  Texts are sequences of one-character strings so that  *)
(* the scanner's regular expressions and String.trim are computed, not     *)
(* assumed.                                                                *)
(***************************************************************************)
EXTENDS Integers, Sequences, FiniteSets, TLC

(***************************************************************************)
(* Bounds of the model.                                                    *)
(***************************************************************************)
\* Date.now() ranges over FirstClock .. MaxClock.
MaxClock == 3
\* Number of handleSendMessage, handleFileUpload and handleNewChat runs
\* explored, all together, and of each kind.
MaxOps == 3
MaxSends == 2
MaxUploads == 1
MaxNewChats == 2
\* Number of download_model calls explored.
MaxDownloads == 3
\* Number of runs of PIIGuard's effect explored.
MaxEffects == 4

\* The value Date.now() has when the store is created (it stands for the
\* present epoch time, which is far from 1, the bootstrap conversation's id).
FirstClock == 2

(***************************************************************************)
(* Characters and texts.                                                   *)
(***************************************************************************)
Range(s) == {s[i] : i \in 1..Len(s)}

Lower == {"a", "b", "c", "d", "e", "f", "g", "h", "i", "j", "k", "l", "m",
          "n", "o", "p", "q", "r", "s", "t", "u", "v", "w", "x", "y", "z"}
Upper == {"A", "B", "C", "D", "E", "F", "G", "H", "I", "J", "K", "L", "M",
          "N", "O", "P", "Q", "R", "S", "T", "U", "V", "W", "X", "Y", "Z"}
Digit == {"0", "1", "2", "3", "4", "5", "6", "7", "8", "9"}
\* \w of a JavaScript regular expression
WordChar == Lower \cup Upper \cup Digit \cup {"_"}
\* the white space String.prototype.trim and \s know, as far as the inputs go
WhiteSpace == {" ", "\t", "\n"}

TextSSN == <<"S", "S", "N", ":", " ", "1", "2", "3", "-", "4", "5", "-",
             "6", "7", "8", "9">>
TextEmail == <<"C", "o", "n", "t", "a", "c", "t", " ", "m", "e", " ", "a",
               "t", " ", "j", "o", "h", "n", "@", "e", "x", "a", "m", "p",
               "l", "e", ".", "c", "o", "m">>
\* what the user may type into the textarea
Texts == {TextSSN, TextEmail}
\* texts no pattern matches, one of them with blanks around it
TextPadded == <<" ", "h", "i", " ">>
TextClean == <<"h", "e", "l", "l", "o">>
CleanTexts == {TextPadded, TextClean}
\* texts for the other categories, and one with two categories
TextPhone == <<"5", "5", "5", "-", "1", "2", "3", "-", "4", "5", "6", "7">>
TextCard == <<"4", "1", "1", "1", " ", "1", "1", "1", "1", " ",
              "1", "1", "1", "1", " ", "1", "1", "1", "1">>
TextIP == <<"1", "0", ".", "0", ".", "0", ".", "1">>
TextMixed == <<"a", "@", "b", ".", "c", "o", " ", "1", "2", "3", "-", "4", "5",
               "-", "6", "7", "8", "9">>

RECURSIVE TrimStart(_)
TrimStart(t) ==
    IF t # <<>> /\ Head(t) \in WhiteSpace THEN TrimStart(Tail(t)) ELSE t

RECURSIVE TrimEnd(_)
TrimEnd(t) ==
    IF t # <<>> /\ t[Len(t)] \in WhiteSpace
    THEN TrimEnd(SubSeq(t, 1, Len(t) - 1)) ELSE t

\* String.prototype.trim
Trim(t) == TrimEnd(TrimStart(t))

(***************************************************************************)
(* Regular expressions, as the scanner's patterns use them.  A pattern is  *)
(* a tree; Ends(r, t, i) is the set of positions at which a match of r     *)
(* that starts at position i of t can end (one past its last character).   *)
(* RegExp.prototype.test is true iff some start position has an end.       *)
(***************************************************************************)
Cls(s) == [k |-> "cls", s |-> s]
WordBoundary == [k |-> "wb"]
Cat(xs) == [k |-> "cat", xs |-> xs]
\* r{min,max}; max = -1 is "no upper limit"
Rep(r, min, max) == [k |-> "rep", r |-> r, min |-> min, max |-> max]
Opt(r) == Rep(r, 0, 1)
Plus(r) == Rep(r, 1, -1)

IsWordAt(t, i) == i >= 1 /\ i <= Len(t) /\ t[i] \in WordChar

RECURSIVE Ends(_, _, _)
RECURSIVE CatEnds(_, _, _, _)
RECURSIVE RepEnds(_, _, _, _, _, _)

Ends(r, t, i) ==
    CASE r.k = "cls" -> IF i <= Len(t) /\ t[i] \in r.s THEN {i + 1} ELSE {}
      [] r.k = "wb"  -> IF IsWordAt(t, i - 1) # IsWordAt(t, i) THEN {i} ELSE {}
      [] r.k = "cat" -> CatEnds(r.xs, 1, t, {i})
      [] r.k = "rep" -> RepEnds(r.r, r.min, r.max, 0, t, {i})

\* the ends of xs[n..] started from any position of from
CatEnds(xs, n, t, from) ==
    IF n > Len(xs) \/ from = {} THEN from
    ELSE CatEnds(xs, n + 1, t, UNION {Ends(xs[n], t, i) : i \in from})

\* the ends of r{min,max} given that `done` repetitions ended at `from`
RepEnds(r, min, max, done, t, from) ==
    LET here == IF done >= min THEN from ELSE {}
        more == UNION {Ends(r, t, i) : i \in from}
    IN  IF from = {} \/ (max >= 0 /\ done >= max) \/ done > Len(t) THEN here
        ELSE here \cup RepEnds(r, min, max, done + 1, t, more)

\* RegExp.prototype.test (no g flag: no lastIndex state)
Test(r, t) == \E i \in 1..(Len(t) + 1) : Ends(r, t, i) # {}

(***************************************************************************)
(* PIIGuard: the five category patterns, in the order of the source.       *)
(***************************************************************************)
D == Cls(Digit)
Sep(s) == Opt(Cls(s))

\* /\b\d{3}-\d{2}-\d{4}\b/
SSNRegex ==
    Cat(<<WordBoundary, Rep(D, 3, 3), Cls({"-"}), Rep(D, 2, 2), Cls({"-"}),
          Rep(D, 4, 4), WordBoundary>>)

\* /\b[A-Za-z0-9._%+-]+@[A-Za-z0-9.-]+\.[A-Z|a-z]{2,}\b/
EmailRegex ==
    Cat(<<WordBoundary,
          Plus(Cls(Lower \cup Upper \cup Digit \cup {".", "_", "%", "+", "-"})),
          Cls({"@"}),
          Plus(Cls(Lower \cup Upper \cup Digit \cup {".", "-"})),
          Cls({"."}),
          Rep(Cls(Lower \cup Upper \cup {"|"}), 2, -1),
          WordBoundary>>)

\* /\b(?:\+?1[-.\s]?)?\(?\d{3}\)?[-.\s]?\d{3}[-.\s]?\d{4}\b/
PhoneRegex ==
    Cat(<<WordBoundary,
          Opt(Cat(<<Opt(Cls({"+"})), Cls({"1"}), Sep({"-", "."} \cup WhiteSpace)>>)),
          Opt(Cls({"("})), Rep(D, 3, 3), Opt(Cls({")"})),
          Sep({"-", "."} \cup WhiteSpace), Rep(D, 3, 3),
          Sep({"-", "."} \cup WhiteSpace), Rep(D, 4, 4), WordBoundary>>)

\* /\b(?:\d{4}[-\s]?){3}\d{4}\b/
CreditCardRegex ==
    Cat(<<WordBoundary,
          Rep(Cat(<<Rep(D, 4, 4), Sep({"-"} \cup WhiteSpace)>>), 3, 3),
          Rep(D, 4, 4), WordBoundary>>)

\* /\b(?:[0-9]{1,3}\.){3}[0-9]{1,3}\b/
IPRegex ==
    Cat(<<WordBoundary, Rep(Cat(<<Rep(D, 1, 3), Cls({"."})>>), 3, 3),
          Rep(D, 1, 3), WordBoundary>>)

patterns ==
    << [regex |-> SSNRegex, type |-> "SSN"],
       [regex |-> EmailRegex, type |-> "Email"],
       [regex |-> PhoneRegex, type |-> "Phone"],
       [regex |-> CreditCardRegex, type |-> "Credit Card"],
       [regex |-> IPRegex, type |-> "IP Address"] >>

\* patterns.forEach(... if (regex.test(text)) detected.push(type))
RECURSIVE DetectFrom(_, _)
DetectFrom(n, text) ==
    IF n > Len(patterns) THEN <<>>
    ELSE (IF Test(patterns[n].regex, text) THEN <<patterns[n].type>> ELSE <<>>)
         \o DetectFrom(n + 1, text)

RECURSIVE DetectFirstFrom(_, _)
DetectFirstFrom(n, text) ==
    IF n > Len(patterns) THEN <<>>
    ELSE IF Test(patterns[n].regex, text) THEN <<patterns[n].type>>
    ELSE DetectFirstFrom(n + 1, text)
detectedFirstOnly(text) == DetectFirstFrom(1, text)

detected(text) == DetectFrom(1, text)

(***************************************************************************)
(* Message texts the handlers build.  A pictograph is one element, named   *)
(* by its code point.                                                      *)
(***************************************************************************)
\* `📎 Uploaded: ${fileName}`
UploadedPrefix == <<"U+1F4CE", " ", "U", "p", "l", "o", "a", "d", "e", "d", ":", " ">>
\* `✅ Document processed: ${fileName}`
ProcessedPrefix == <<"U+2705", " ", "D", "o", "c", "u", "m", "e", "n", "t", " ",
                     "p", "r", "o", "c", "e", "s", "s", "e", "d", ":", " ">>
\* `Failed to process document: ${error}`
FailedPrefix == <<"F", "a", "i", "l", "e", "d", " ", "t", "o", " ", "p", "r",
                  "o", "c", "e", "s", "s", " ", "d", "o", "c", "u", "m", "e",
                  "n", "t", ":", " ">>
\* `Error: ${error}`
ErrorPrefix == <<"E", "r", "r", "o", "r", ":", " ">>
DefaultFileName == <<"d", "o", "c", "u", "m", "e", "n", "t">>

IsPrefix(p, t) == Len(p) <= Len(t) /\ SubSeq(t, 1, Len(p)) = p

\* selected.split(seps).pop(): what follows the last separator
RECURSIVE LastSegment(_, _)
LastSegment(t, seps) ==
    IF \E i \in 1..Len(t) : t[i] \in seps
    THEN LastSegment(Tail(t), seps)
    ELSE t

FileNameOfWholePath(selected) == selected

\* selected.split(/[/\\]/).pop() || 'document'
FileNameOf(selected) ==
    LET last == LastSegment(selected, {"/", "\\"})
    IN  IF last = <<>> THEN DefaultFileName ELSE last

\* selected.split('.').pop()
FileTypeOf(selected) == LastSegment(selected, {"."})

(***************************************************************************)
(* What the environment supplies: the paths the file dialog returns, the   *)
(* backend's replies and errors, the model lists it reports.               *)
(***************************************************************************)
PathB == <<"C", ":", "\\", "d", "o", "c", "s", "\\", "b", ".", "p", "d", "f">>
Paths == {PathB}
ReplyText == <<"o", "k">>
Replies == {ReplyText}
ErrText == <<"b", "a", "c", "k", "e", "n", "d", " ", "d", "o", "w", "n">>
Errors == {ErrText}
\* process_document's result, a Document of appStore.ts
DocResults ==
    {[id |-> "d1", filename |-> FileNameOf(PathB), content |-> TextSSN,
      pii_removed |-> b, metadata |-> <<>>] : b \in BOOLEAN}
ModelNames == {"llama2-7b", "mistral-7b", "phi-2"}
ModelLists == {<<"llama2-7b", "mistral-7b", "phi-2">>, <<"mistral-7b">>}
NoModel == "null"

(***************************************************************************)
(* State.                                                                  *)
(***************************************************************************)
VARIABLES
    theme,                  \* App: useState('dark')
    localTheme,             \* localStorage: the item 'theme', or null
    savedTheme,             \* what the earlier session left in localStorage
    startup,                \* App: which of the mount effects runs next
    persistPending,         \* App: the [theme] effect is due after a change
    guardText,              \* PIIGuard: the text prop
    detectedPII,            \* PIIGuard: useState<string[]>([])
    callbacks,              \* PIIGuard: the callbacks fired so far, in order
    guardMounted,           \* PIIGuard: the component is mounted
    message,                \* App: useState('') of the textarea
    isLoading,              \* App: useState(false)
    messages,               \* store: the message log
    documents,              \* store
    selectedModel,          \* store
    availableModels,        \* store
    conversations,          \* store
    currentConversationId,  \* store
    systemHealth,           \* store: the latest telemetry snapshot, or null
    isOpen,                 \* ModelSelector: useState(false)
    downloading,            \* ModelSelector: useState<string | null>(null)
    now,                    \* the value Date.now() returns
    sends,                  \* send_message calls awaiting the backend
    uploads,                \* handleFileUpload runs suspended at an await
    downloads,              \* download_model calls awaiting the backend, per model
    lastDownload,           \* how each model's latest finished download ended
    listPending,            \* the list_available_models call of the mount effect
    nSends,                 \* handleSendMessage runs so far
    nUploads,               \* handleFileUpload runs so far
    nDownloads              \* handleDownloadModel runs so far

appVars == <<message, isLoading>>
storeVars == <<messages, documents, selectedModel, availableModels,
               conversations, currentConversationId>>
selectorVars == <<isOpen, downloading>>
backendVars == <<sends, uploads, downloads, lastDownload, listPending>>
\* the user's operations so far, of the kinds MaxOps counts
opsDone == nSends + nUploads + (Len(conversations) - 1)
counters == <<nSends, nUploads, nDownloads>>
themeVars == <<theme, localTheme, savedTheme, startup, persistPending>>
guardVars == <<guardText, detectedPII, callbacks, guardMounted>>
vars == <<appVars, themeVars, guardVars, storeVars, systemHealth, selectorVars,
          backendVars, now, counters>>

(***************************************************************************)
(* The store's mutations (appStore.ts).                                    *)
(***************************************************************************)
Msg(role, content, timestamp) ==
    [role |-> role, content |-> content, timestamp |-> timestamp]

addMessagePrepending(log, m) == <<m>> \o log

\* set((state) => ({ messages: [...state.messages, message] }))
addMessage(log, m) == Append(log, m)

\* set({ messages: [] })
clearMessages == <<>>

\* set((state) => ({ documents: [...state.documents, document] }))
addDocument(docs, d) == Append(docs, d)

\* set((state) => ({ conversations: [...state.conversations, conversation] }))
addConversation(convs, c) == Append(convs, c)

\* Date.now().toString()
NewId == ToString(now)

(***************************************************************************)
(* Telemetry snapshots (the store's systemHealth) and StatusBar.           *)
(***************************************************************************)
\* systemHealth: null
NoHealth == <<>>
\* gpu_usage: null, temperature: null
NoMetric == -1

\* the thresholds StatusBar passes to getStatusColor
CpuThreshold == 85
MemoryThreshold == 90
GpuThreshold == 85
TemperatureThreshold == 80

getStatusColorSwapped(value, threshold) ==
    IF value * 10 < threshold * 6 THEN "text-green-400"
    ELSE IF value * 10 < threshold * 8 THEN "text-red-400"
    ELSE "text-yellow-400"

getStatusColorInverted(value, threshold) ==
    IF value * 10 < threshold * 6 THEN "text-red-400"
    ELSE IF value * 10 < threshold * 8 THEN "text-yellow-400"
    ELSE "text-green-400"

\* value < threshold * 0.6, value < threshold * 0.8 (in tenths)
getStatusColor(value, threshold) ==
    IF value * 10 < threshold * 6 THEN "text-green-400"
    ELSE IF value * 10 < threshold * 8 THEN "text-yellow-400"
    ELSE "text-red-400"

\* The metrics a snapshot tracks, each with its threshold: cpu and memory
\* always, gpu and temperature when the machine reports them.
Tracked(cpu, memory, gpu, temperature) ==
    {<<cpu, CpuThreshold>>, <<memory, MemoryThreshold>>}
        \cup (IF gpu # NoMetric THEN {<<gpu, GpuThreshold>>} ELSE {})
        \cup (IF temperature # NoMetric
                 THEN {<<temperature, TemperatureThreshold>>} ELSE {})

\* evaluate(snapshot): a metric at or above 80% of its threshold is unsafe,
\* and an unsafe metric forces isSafe = false.
evaluate(cpu, memory, gpu, temperature) ==
    \A m \in Tracked(cpu, memory, gpu, temperature) : m[1] * 100 < m[2] * 80

\* the snapshot the backend reports for these readings
Snapshot(cpu, memory, gpu, temperature) ==
    [cpu_usage |-> cpu, memory_usage |-> memory, gpu_usage |-> gpu,
     temperature |-> temperature,
     is_safe |-> evaluate(cpu, memory, gpu, temperature)]

\* readings on both sides of each band's edge
CpuValues == {40, 50, 51, 67, 68, 95}
MemoryValues == {40, 54, 72}
GpuValues == {NoMetric, 40, 68}
TemperatureValues == {NoMetric, 47, 64}
Snapshots ==
    {Snapshot(cpu, memory, gpu, temperature) :
        cpu \in CpuValues, memory \in MemoryValues,
        gpu \in GpuValues, temperature \in TemperatureValues}

\* What StatusBar renders for a snapshot: the colour of each metric that is
\* shown and the text of the indicator.
StatusBar(systemStatus) ==
    IF systemStatus = NoHealth THEN NoHealth
    ELSE [cpu |-> getStatusColor(systemStatus.cpu_usage, CpuThreshold),
          memory |-> getStatusColor(systemStatus.memory_usage, MemoryThreshold),
          gpu |-> IF systemStatus.gpu_usage # NoMetric
                     THEN getStatusColor(systemStatus.gpu_usage, GpuThreshold)
                     ELSE "hidden",
          temperature |-> IF systemStatus.temperature # NoMetric
                             THEN getStatusColor(systemStatus.temperature,
                                                 TemperatureThreshold)
                             ELSE "hidden",
          indicator |-> IF systemStatus.is_safe THEN "System Safe"
                                                ELSE "Resource Warning"]

\* localStorage.getItem('theme'): null
NoTheme == "null"

Init ==
    /\ message = <<>>
    /\ isLoading = FALSE
    /\ messages = <<>>
    /\ documents = <<>>
    /\ selectedModel = "llama2-7b"
    /\ availableModels = <<"llama2-7b", "mistral-7b", "phi-2">>
    /\ conversations = <<[id |-> "1", title |-> "New Chat",
                          timestamp |-> FirstClock, messages |-> <<>>]>>
    /\ currentConversationId = "1"
    /\ systemHealth = NoHealth
    /\ theme = "dark"
    /\ localTheme = NoTheme
    /\ savedTheme = NoTheme
    /\ startup = "session"
    /\ persistPending = FALSE
    /\ guardText = <<>>
    /\ detectedPII = <<>>
    /\ callbacks = <<>>
    /\ guardMounted = FALSE
    /\ isOpen = FALSE
    /\ downloading = NoModel
    /\ now = FirstClock
    /\ sends = {}
    /\ uploads = {}
    /\ downloads = [m \in ModelNames |-> 0]
    /\ lastDownload = [m \in ModelNames |-> "none"]
    /\ listPending = TRUE
    /\ nSends = 0
    /\ nUploads = 0
    /\ nDownloads = 0

(***************************************************************************)
(* The clock: Date.now() does not change between two reads unless time     *)
(* passes, and nothing makes time pass between two handlers.               *)
(***************************************************************************)
Tick ==
    /\ now < MaxClock
    /\ now' = now + 1
    /\ UNCHANGED <<themeVars, guardVars, systemHealth, appVars, storeVars, selectorVars, backendVars, counters>>

(***************************************************************************)
(* App: the textarea.  It is disabled while isLoading.                     *)
(***************************************************************************)
SetMessage(t) ==
    /\ ~isLoading
    /\ message # t
    /\ message' = t
    /\ UNCHANGED <<themeVars, guardVars, systemHealth, isLoading, storeVars, selectorVars, backendVars, now, counters>>

(***************************************************************************)
(* App.handleSendMessage, up to its await.                                 *)
(***************************************************************************)
userMessageUntrimmed(text) == text

\* const userMessage = message.trim()
userMessage(text) == Trim(text)

\* invoke('send_message', { message: userMessage, modelName: selectedModel })
SendCall(id, text, model) ==
    [id |-> id, message |-> userMessage(text), modelName |-> model]

HandleSendMessage ==
    /\ opsDone < MaxOps /\ nSends < MaxSends
    /\ ~(Trim(message) = <<>> \/ isLoading)
    /\ message' = <<>>
    /\ isLoading' = TRUE
    /\ messages' = addMessage(messages, Msg("user", userMessage(message), now))
    /\ sends' = sends \cup {SendCall(nSends + 1, message, selectedModel)}
    /\ nSends' = nSends + 1
    /\ UNCHANGED <<themeVars, guardVars, systemHealth, documents, selectedModel, availableModels, conversations,
                   currentConversationId, selectorVars, uploads, downloads,
                   lastDownload, listPending, now, nUploads, nDownloads>>

\* send_message resolved: the try block's addMessage, then finally
SendResolved(c, response) ==
    /\ c \in sends
    /\ sends' = sends \ {c}
    /\ messages' = addMessage(messages, Msg("assistant", response, now))
    /\ isLoading' = FALSE
    /\ UNCHANGED <<themeVars, guardVars, systemHealth, message, documents, selectedModel, availableModels,
                   conversations, currentConversationId, selectorVars, uploads,
                   downloads, lastDownload, listPending, now, counters>>

SendFailedAsReply(log, error, ts) ==
    addMessage(log, Msg("assistant", ErrorPrefix \o error, ts))

\* the catch block of handleSendMessage
SendFailed(log, error, ts) ==
    addMessage(log, Msg("system", ErrorPrefix \o error, ts))

\* send_message rejected: the catch block, then finally
SendRejected(c, error) ==
    /\ c \in sends
    /\ sends' = sends \ {c}
    /\ messages' = SendFailed(messages, error, now)
    /\ isLoading' = FALSE
    /\ UNCHANGED <<themeVars, guardVars, systemHealth, message, documents, selectedModel, availableModels,
                   conversations, currentConversationId, selectorVars, uploads,
                   downloads, lastDownload, listPending, now, counters>>

(***************************************************************************)
(* App.handleFileUpload.  The paperclip button is disabled while           *)
(* isLoading; the handler itself has no guard.  It suspends twice: at the  *)
(* file dialog and at process_document.                                    *)
(***************************************************************************)
\* pc is where the run is suspended: "dialog" (await open) or "process"
\* (await invoke('process_document', { filePath, fileType }))
Upload(id, pc, selected) ==
    [id |-> id, pc |-> pc, filePath |-> selected, fileType |-> FileTypeOf(selected)]

HandleFileUpload ==
    /\ opsDone < MaxOps /\ nUploads < MaxUploads
    /\ ~isLoading
    /\ uploads' = uploads \cup {Upload(nUploads + 1, "dialog", <<>>)}
    /\ nUploads' = nUploads + 1
    /\ UNCHANGED <<themeVars, guardVars, systemHealth, appVars, storeVars, selectorVars, sends, downloads,
                   lastDownload, listPending, now, nSends, nDownloads>>

\* open() resolved with null: `if (selected)` is skipped, then finally
DialogCancelled(u) ==
    /\ u \in uploads /\ u.pc = "dialog"
    /\ uploads' = uploads \ {u}
    /\ isLoading' = FALSE
    /\ UNCHANGED <<themeVars, guardVars, systemHealth, message, storeVars, selectorVars, sends, downloads,
                   lastDownload, listPending, now, counters>>

\* open() resolved with a path: up to the await of process_document
DialogSelected(u, selected) ==
    /\ u \in uploads /\ u.pc = "dialog"
    /\ selected # <<>>
    /\ isLoading' = TRUE
    /\ messages' = addMessage(messages,
                       Msg("system", UploadedPrefix \o FileNameOf(selected), now))
    /\ uploads' = (uploads \ {u}) \cup {Upload(u.id, "process", selected)}
    /\ UNCHANGED <<themeVars, guardVars, systemHealth, message, documents, selectedModel, availableModels,
                   conversations, currentConversationId, selectorVars, sends,
                   downloads, lastDownload, listPending, now, counters>>

UploadFailedSilently(log, error, ts) == log

\* the catch block of handleFileUpload
UploadFailed(log, error, ts) ==
    addMessage(log, Msg("system", FailedPrefix \o error, ts))

\* open() rejected: the catch block, then finally
DialogRejected(u, error) ==
    /\ u \in uploads /\ u.pc = "dialog"
    /\ uploads' = uploads \ {u}
    /\ messages' = UploadFailed(messages, error, now)
    /\ isLoading' = FALSE
    /\ UNCHANGED <<themeVars, guardVars, systemHealth, message, documents, selectedModel, availableModels,
                   conversations, currentConversationId, selectorVars, sends,
                   downloads, lastDownload, listPending, now, counters>>

ProcessedDocumentsStored(docs, result) == addDocument(docs, result)

\* const result = await invoke('process_document', ...): result is bound and
\* never read, so the document list is what it was
ProcessedDocuments(docs, result) == docs

\* process_document resolved: the second addMessage, then finally
ProcessResolved(u, result) ==
    /\ u \in uploads /\ u.pc = "process"
    /\ uploads' = uploads \ {u}
    /\ documents' = ProcessedDocuments(documents, result)
    /\ messages' = addMessage(messages,
                       Msg("system", ProcessedPrefix \o FileNameOf(u.filePath), now))
    /\ isLoading' = FALSE
    /\ UNCHANGED <<themeVars, guardVars, systemHealth, message, selectedModel, availableModels, conversations,
                   currentConversationId, selectorVars, sends, downloads,
                   lastDownload, listPending, now, counters>>

\* process_document rejected: the catch block, then finally
ProcessRejected(u, error) ==
    /\ u \in uploads /\ u.pc = "process"
    /\ uploads' = uploads \ {u}
    /\ messages' = UploadFailed(messages, error, now)
    /\ isLoading' = FALSE
    /\ UNCHANGED <<themeVars, guardVars, systemHealth, message, documents, selectedModel, availableModels,
                   conversations, currentConversationId, selectorVars, sends,
                   downloads, lastDownload, listPending, now, counters>>

(***************************************************************************)
(* App.handleNewChat and the conversation list.                            *)
(***************************************************************************)
NewConversation == [id |-> NewId, title |-> "New Chat", timestamp |-> now,
                    messages |-> <<>>]

HandleNewChat ==
    /\ opsDone < MaxOps /\ Len(conversations) - 1 < MaxNewChats
    /\ conversations' = addConversation(conversations, NewConversation)
    /\ currentConversationId' = NewConversation.id
    /\ messages' = clearMessages
    /\ UNCHANGED <<themeVars, guardVars, systemHealth, appVars, documents, selectedModel, availableModels,
                   selectorVars, backendVars, now, counters>>

\* onClick={() => setCurrentConversation(conv.id)} of a listed conversation
SetCurrentConversation(i) ==
    /\ i \in 1..Len(conversations)
    /\ currentConversationId # conversations[i].id
    /\ currentConversationId' = conversations[i].id
    /\ UNCHANGED <<themeVars, guardVars, systemHealth, appVars, messages, documents, selectedModel, availableModels,
                   conversations, selectorVars, backendVars, now, counters>>

(***************************************************************************)
(* ModelSelector.                                                          *)
(***************************************************************************)
\* the mount effect's list_available_models call resolved
ListResolved(models) ==
    /\ listPending
    /\ listPending' = FALSE
    /\ availableModels' = models
    /\ UNCHANGED <<themeVars, guardVars, systemHealth, appVars, messages, documents, selectedModel, conversations,
                   currentConversationId, selectorVars, sends, uploads,
                   downloads, lastDownload, now, counters>>

\* ... or rejected: console.error only
ListRejected ==
    /\ listPending
    /\ listPending' = FALSE
    /\ UNCHANGED <<themeVars, guardVars, systemHealth, appVars, storeVars, selectorVars, sends, uploads, downloads,
                   lastDownload, now, counters>>

\* onClick={() => setIsOpen(!isOpen)}
ToggleOpen ==
    /\ isOpen' = ~isOpen
    /\ UNCHANGED <<themeVars, guardVars, systemHealth, appVars, storeVars, downloading, backendVars, now, counters>>

\* the row of a listed model is clicked
HandleModelSelect(model) ==
    /\ isOpen
    /\ model \in Range(availableModels)
    /\ selectedModel' = model
    /\ isOpen' = FALSE
    /\ UNCHANGED <<themeVars, guardVars, systemHealth, appVars, messages, documents, availableModels, conversations,
                   currentConversationId, downloading, backendVars, now, counters>>

\* The download button is rendered in the rows of the models that are
\* neither selected nor the one `downloading` names.
HandleDownloadModel(model) ==
    /\ nDownloads < MaxDownloads
    /\ isOpen
    /\ model \in Range(availableModels)
    /\ selectedModel # model /\ downloading # model
    /\ downloading' = model
    /\ downloads' = [downloads EXCEPT ![model] = @ + 1]
    /\ nDownloads' = nDownloads + 1
    /\ UNCHANGED <<themeVars, guardVars, systemHealth, appVars, storeVars, isOpen, sends, uploads, lastDownload,
                   listPending, now, nSends, nUploads>>

\* download_model resolved: setDownloading(null)
DownloadResolved(model) ==
    /\ downloads[model] > 0
    /\ downloads' = [downloads EXCEPT ![model] = @ - 1]
    /\ lastDownload' = [lastDownload EXCEPT ![model] = "ok"]
    /\ downloading' = NoModel
    /\ UNCHANGED <<themeVars, guardVars, systemHealth, appVars, storeVars, isOpen, sends, uploads, listPending, now,
                   counters>>

\* download_model rejected: console.error, setDownloading(null)
DownloadRejected(model) ==
    /\ downloads[model] > 0
    /\ downloads' = [downloads EXCEPT ![model] = @ - 1]
    /\ lastDownload' = [lastDownload EXCEPT ![model] = "failed"]
    /\ downloading' = NoModel
    /\ UNCHANGED <<themeVars, guardVars, systemHealth, appVars, storeVars, isOpen, sends, uploads, listPending, now,
                   counters>>

\* A model's download state, read off the download_model calls made for it.
ModelState(model) ==
    IF downloads[model] > 0 THEN "Downloading"
    ELSE IF lastDownload[model] = "ok" THEN "Ready"
    ELSE IF lastDownload[model] = "failed" THEN "Error"
    ELSE "NotDownloaded"

\* What the row of a listed model shows: the check mark, the pulsing icon
\* or the download button.
RowShows(model) ==
    IF selectedModel = model THEN "selected"
    ELSE IF downloading = model THEN "downloading"
    ELSE "download"

(***************************************************************************)
(* The store's setSystemHealth, called with each sampled snapshot.         *)
(***************************************************************************)
\* set({ systemHealth: health })
SetSystemHealth(health) ==
    /\ systemHealth # health
    /\ systemHealth' = health
    /\ UNCHANGED <<themeVars, guardVars, appVars, storeVars, selectorVars,
                   backendVars, now, counters>>

(***************************************************************************)
(* The store's setCurrentConversation, called with any id.  App's own two  *)
(* call sites pass the id of a conversation of the list.                   *)
(***************************************************************************)
\* an id no conversation has: ids are "1" and clock values
UnknownId == "0"
ConversationIds == {"1", UnknownId}

\* set({ currentConversationId: id })
setCurrentConversation(id) == id

SwitchCurrent(id) ==
    /\ currentConversationId # id
    /\ currentConversationId' = setCurrentConversation(id)
    /\ UNCHANGED <<themeVars, guardVars, systemHealth, appVars, messages, documents, selectedModel,
                   availableModels, conversations, selectorVars, backendVars,
                   now, counters>>

(***************************************************************************)
(* App: the theme.  On mount the effects run in the order they are         *)
(* declared: the [theme] effect, which writes the theme to localStorage,   *)
(* then the [] effect, which reads it back.                                *)
(***************************************************************************)
Themes == {"light", "dark"}

\* what an earlier session of the application left in localStorage
EarlierSession(t) ==
    /\ startup = "session"
    /\ localTheme' = t
    /\ savedTheme' = t
    /\ startup' = "persist"
    /\ UNCHANGED <<theme, persistPending, guardVars, appVars, storeVars,
                   systemHealth, selectorVars, backendVars, now, counters>>

\* localStorage.setItem('theme', theme)
setItem(stored, value) == value

\* useEffect(..., [theme]) at mount
PersistThemeAtMount ==
    /\ startup = "persist"
    /\ localTheme' = setItem(localTheme, theme)
    /\ startup' = "restore"
    /\ UNCHANGED <<theme, savedTheme, persistPending, guardVars, appVars,
                   storeVars, systemHealth, selectorVars, backendVars, now,
                   counters>>

\* useEffect(..., []): if (savedTheme) setTheme(savedTheme)
RestoreTheme ==
    /\ startup = "restore"
    /\ theme' = IF localTheme # NoTheme THEN localTheme ELSE theme
    /\ persistPending' = (theme' # theme)
    /\ startup' = "done"
    /\ UNCHANGED <<localTheme, savedTheme, guardVars, appVars, storeVars,
                   systemHealth, selectorVars, backendVars, now, counters>>

\* useEffect(..., [theme]) after the theme changed
PersistTheme ==
    /\ startup = "done" /\ persistPending
    /\ localTheme' = setItem(localTheme, theme)
    /\ persistPending' = FALSE
    /\ UNCHANGED <<theme, savedTheme, startup, guardVars, appVars, storeVars,
                   systemHealth, selectorVars, backendVars, now, counters>>

\* toggleTheme: setTheme(theme === 'light' ? 'dark' : 'light')
ToggleTheme ==
    /\ startup = "done" /\ ~persistPending
    /\ theme' = IF theme = "light" THEN "dark" ELSE "light"
    /\ persistPending' = TRUE
    /\ UNCHANGED <<localTheme, savedTheme, startup, guardVars, appVars,
                   storeVars, systemHealth, selectorVars, backendVars, now,
                   counters>>

NextTheme ==
    \/ \E t \in Themes \cup {NoTheme} : EarlierSession(t)
    \/ PersistThemeAtMount
    \/ RestoreTheme
    \/ PersistTheme
    \/ ToggleTheme

(***************************************************************************)
(* PIIGuard.  Its effect runs after the mount and after every render in    *)
(* which the text or one of the two callback props has changed.            *)
(***************************************************************************)
\* the texts the parent passes as the text prop
GuardTexts == Texts \cup CleanTexts
                  \cup {<<>>, TextPhone, TextCard, TextIP, TextMixed}

\* if (detected.length > 0) onPIIDetected() else onPIICleared()
callback(list) == IF Len(list) > 0 THEN "onPIIDetected" ELSE "onPIICleared"

\* the body of the effect, for the text of this render
GuardEffect(t) ==
    /\ detectedPII' = detected(t)
    /\ callbacks' = Append(callbacks, callback(detected(t)))

MountGuard(t) ==
    /\ ~guardMounted
    /\ guardMounted' = TRUE
    /\ guardText' = t
    /\ GuardEffect(t)
    /\ UNCHANGED <<themeVars, appVars, storeVars, systemHealth, selectorVars,
                   backendVars, now, counters>>

\* the parent renders the component with another text
SetGuardText(t) ==
    /\ guardMounted /\ Len(callbacks) < MaxEffects
    /\ guardText # t
    /\ guardText' = t
    /\ GuardEffect(t)
    /\ UNCHANGED <<guardMounted, themeVars, appVars, storeVars, systemHealth,
                   selectorVars, backendVars, now, counters>>

\* the parent renders the component with new callback functions
SetGuardCallbacks ==
    /\ guardMounted /\ Len(callbacks) < MaxEffects
    /\ GuardEffect(guardText)
    /\ UNCHANGED <<guardText, guardMounted, themeVars, appVars, storeVars,
                   systemHealth, selectorVars, backendVars, now, counters>>

\* return null, or the banner with the detected types
GuardBanner == detectedPII

NextGuard ==
    \/ \E t \in GuardTexts : MountGuard(t)
    \/ \E t \in GuardTexts : SetGuardText(t)
    \/ SetGuardCallbacks

\* The chat side: App and the store's message log and conversations.
NextChat ==
    \/ Tick
    \/ \E t \in Texts \cup {<<>>} : SetMessage(t)
    \/ HandleSendMessage
    \/ \E c \in sends, response \in Replies : SendResolved(c, response)
    \/ \E c \in sends, error \in Errors : SendRejected(c, error)
    \/ HandleFileUpload
    \/ \E u \in uploads : DialogCancelled(u)
    \/ \E u \in uploads, selected \in Paths : DialogSelected(u, selected)
    \/ \E u \in uploads, error \in Errors : DialogRejected(u, error)
    \/ \E u \in uploads, result \in DocResults : ProcessResolved(u, result)
    \/ \E u \in uploads, error \in Errors : ProcessRejected(u, error)
    \/ HandleNewChat
    \/ \E i \in 1..Len(conversations) : SetCurrentConversation(i)

\* The model side: ModelSelector and the store's model fields.
NextModels ==
    \/ \E models \in ModelLists : ListResolved(models)
    \/ ListRejected
    \/ ToggleOpen
    \/ \E model \in ModelNames : HandleModelSelect(model)
    \/ \E model \in ModelNames : HandleDownloadModel(model)
    \/ \E model \in ModelNames : DownloadResolved(model)
    \/ \E model \in ModelNames : DownloadRejected(model)

\* Telemetry alone: the snapshots that replace one another in the store.
NextStatus == \E health \in Snapshots : SetSystemHealth(health)

Next == NextChat \/ NextModels \/ NextStatus \/ NextTheme \/ NextGuard

Spec == Init /\ [][Next]_vars

\* The two sides share one variable, selectedModel, which the chat side only
\* reads (into the send_message call), so each side is also explored alone.
SpecChat == Init /\ [][NextChat]_vars

SpecModels == Init /\ [][NextModels]_vars

\* Sending while the model side runs: the send path of App together with
\* ModelSelector, so that a send_message call is issued in every state the
\* model fields can be in.
NextSend ==
    \/ \E t \in Texts : SetMessage(t)
    \/ HandleSendMessage
    \/ \E c \in sends, response \in Replies : SendResolved(c, response)
    \/ \E c \in sends, error \in Errors : SendRejected(c, error)
    \/ NextModels

SpecSend == Init /\ [][NextSend]_vars

\* Telemetry alone.
SpecStatus == Init /\ [][NextStatus]_vars

\* Sending while telemetry arrives.
NextGate ==
    \/ \E t \in Texts : SetMessage(t)
    \/ HandleSendMessage
    \/ \E c \in sends, response \in Replies : SendResolved(c, response)
    \/ \E c \in sends, error \in Errors : SendRejected(c, error)
    \/ NextStatus

SpecGate == Init /\ [][NextGate]_vars

\* The chat side with the store's pointer operation called directly.
NextStore ==
    \/ NextChat
    \/ \E id \in ConversationIds : SwitchCurrent(id)

SpecStore == Init /\ [][NextStore]_vars

\* The send path alone, with clean texts typed as well.
NextClean ==
    \/ Tick
    \/ \E t \in Texts \cup CleanTexts \cup {<<>>} : SetMessage(t)
    \/ HandleSendMessage
    \/ \E c \in sends, response \in Replies : SendResolved(c, response)
    \/ \E c \in sends, error \in Errors : SendRejected(c, error)

SpecClean == Init /\ [][NextClean]_vars

\* App with its theme: the theme effects and the send path.
NextApp ==
    \/ NextTheme
    \/ \E t \in Texts : SetMessage(t)
    \/ HandleSendMessage
    \/ \E c \in sends, response \in Replies : SendResolved(c, response)
    \/ \E c \in sends, error \in Errors : SendRejected(c, error)

SpecTheme == Init /\ [][NextApp]_vars

\* PIIGuard alone.
SpecGuard == Init /\ [][NextGuard]_vars

(***************************************************************************)
(* Properties.                                                             *)
(***************************************************************************)
UserMessages == {i \in 1..Len(messages) : messages[i].role = "user"}
HasNotice(prefix) == \E i \in 1..Len(messages) : IsPrefix(prefix, messages[i].content)

\* C1: every text passed as the message argument of a send_message call is
\* redacted: no call in flight carries an SSN-shaped substring (ddd-dd-dddd).
C1_SendReceivesRedactedForm == \A c \in sends : ~Test(SSNRegex, c.message)

C4_RedactedTextHidesMatches ==
    /\ \A i \in UserMessages :
           \A n \in 1..Len(patterns) : ~Test(patterns[n].regex, messages[i].content)
    /\ message = TextEmail => detected(message) = <<"Email">>
    /\ message = TextSSN => "SSN" \in Range(detected(message))

\* C5: single-flight: at no time are two send_message calls in flight.
C5_SingleFlight == Cardinality(sends) <= 1

\* C6: conversation ordering: timestamps never decrease along the message
\* log, and a step that leaves the log non-empty and changed has appended
\* exactly one message at its end, the earlier messages as they were.
TimestampsNonDecreasing ==
    \A i \in 1..Len(messages) : \A j \in i..Len(messages) :
        messages[i].timestamp <= messages[j].timestamp
AppendsAtEnd ==
    (messages' # messages /\ messages' # <<>>) =>
        /\ Len(messages') = Len(messages) + 1
        /\ SubSeq(messages', 1, Len(messages)) = messages
C6_ConversationOrdering == []TimestampsNonDecreasing /\ [][AppendsAtEnd]_vars

\* C6 witness: a log with a user message, its reply and an upload notice,
\* written at different clock values.
C6_InterleavedLog ==
    /\ Len(messages) >= 3
    /\ \E i, j, k \in 1..Len(messages) :
           /\ messages[i].role = "user"
           /\ messages[j].role = "assistant"
           /\ messages[k].role = "system"
    /\ messages[1].timestamp < messages[Len(messages)].timestamp

\* C7: conversations and their messages are retained: no step removes a
\* conversation from the store or a message that was appended.
C7_NothingRemoved ==
    [][/\ Len(conversations') >= Len(conversations)
       /\ SubSeq(conversations', 1, Len(conversations)) = conversations
       /\ Len(messages') >= Len(messages)
       /\ SubSeq(messages', 1, Len(messages)) = messages]_vars

\* C8: currentConversationId is the id of exactly one conversation of the
\* store.
C8_CurrentResolvesToExactlyOne ==
    Cardinality({i \in 1..Len(conversations) :
                    conversations[i].id = currentConversationId}) = 1

\* C9: a conversation that is created has an id no conversation already in
\* the store has, an empty message log and the default title, and it
\* becomes current.
C9_CreatedConversationIsFresh ==
    [][Len(conversations') > Len(conversations) =>
        LET c == conversations'[Len(conversations')]
        IN  /\ \A i \in 1..Len(conversations) : conversations[i].id # c.id
            /\ c.messages = <<>>
            /\ c.title = "New Chat"
            /\ currentConversationId' = c.id]_vars

\* C10: model selection: the selected model changes only to a model whose
\* state is Ready; selecting a model in any other state leaves it as it was.
C10_SelectOnlyReady ==
    [][selectedModel' # selectedModel => ModelState(selectedModel') = "Ready"]_vars

\* The model the store selects when it is created.
BootstrapModel == "llama2-7b"

\* C11: a send_message call that is issued carries a modelName that is an
\* entry of the registry (availableModels) whose state is Ready, or the
\* bootstrap default while no download has completed; never a NotDownloaded
\* or Error model.
C11_SendNamesReadyModel ==
    [][\A c \in sends' \ sends :
           \/ /\ c.modelName \in Range(availableModels)
              /\ ModelState(c.modelName) = "Ready"
           \/ /\ c.modelName = BootstrapModel
              /\ \A model \in ModelNames : lastDownload[model] # "ok"]_vars

\* C12: download state machine: a request moves a model to Downloading,
\* success to Ready and failure to Error, a state the front end tells from
\* NotDownloaded: the row of a model in state Error does not show what the
\* row of a model never requested shows, and a model the front end shows as
\* downloading has a download_model call in flight.
C12_DownloadStateMachine ==
    \A model \in ModelNames :
        /\ RowShows(model) = "downloading" => ModelState(model) = "Downloading"
        /\ (ModelState(model) = "Error" /\ selectedModel # model) =>
               RowShows(model) # "download"

\* C13: downloads of distinct models are independent: a step that starts,
\* completes or fails a download of one model leaves every other model the
\* front end holds as downloading, and whose call is still in flight, as
\* downloading.
C13_DownloadsIndependent ==
    [][\A model \in ModelNames :
           (/\ downloads' # downloads
            /\ downloads'[model] = downloads[model]
            /\ downloads[model] > 0
            /\ downloading = model) => downloading' = model]_vars

\* C14: a download is requested only from NotDownloaded or Error: no model
\* ever has two download_model calls in flight.
C14_OneDownloadPerModel == \A model \in ModelNames : downloads[model] <= 1

C16_ProcessFailureSurfaced ==
    [][\A u \in uploads, error \in Errors :
           ProcessRejected(u, error) =>
               /\ documents' = documents
               /\ Len(messages') = Len(messages) + 1
               /\ SubSeq(messages', 1, Len(messages)) = messages
               /\ messages'[Len(messages')].role = "system"
               /\ messages'[Len(messages')].content = FailedPrefix \o error]_vars

\* C16 witness: the notice of an upload followed by the failure of its
\* processing, with no document in the store.
C16_UploadFailedInLog ==
    /\ documents = <<>>
    /\ uploads = {}
    /\ \E i \in 1..Len(messages) :
           /\ i + 1 <= Len(messages)
           /\ IsPrefix(UploadedPrefix, messages[i].content)
           /\ IsPrefix(FailedPrefix, messages[i + 1].content)

\* C17: admission gate: no send_message call is issued while the latest
\* snapshot has is_safe = false, and a snapshot that arrives cancels no call
\* that is in flight.
C17_AdmissionGate ==
    [][/\ sends' \ sends # {} =>
              ~(systemHealth # NoHealth /\ ~systemHealth.is_safe)
       /\ systemHealth' # systemHealth => sends \subseteq sends']_vars

\* the readings of a snapshot, each with its threshold, in the order
\* StatusBar shows them
Metrics(h) ==
    <<<<h.cpu_usage, CpuThreshold>>, <<h.memory_usage, MemoryThreshold>>,
      <<h.gpu_usage, GpuThreshold>>, <<h.temperature, TemperatureThreshold>>>>
ShownColours(h) ==
    {StatusBar(h).cpu, StatusBar(h).memory, StatusBar(h).gpu,
     StatusBar(h).temperature}
TrackedOf(h) == {m \in Range(Metrics(h)) : m[1] # NoMetric}

Severity(colour) ==
    CASE colour = "text-green-400" -> 0
      [] colour = "text-yellow-400" -> 1
      [] colour = "text-red-400" -> 2

\* snapshot h2 tracks the metrics h tracks and none of them is lower
Raised(h, h2) ==
    \A n \in 1..Len(Metrics(h)) :
        /\ (Metrics(h)[n][1] = NoMetric) <=> (Metrics(h2)[n][1] = NoMetric)
        /\ Metrics(h)[n][1] <= Metrics(h2)[n][1]

C20_SwitchToUnknownFails ==
    [][currentConversationId' # currentConversationId =>
           \E i \in 1..Len(conversations') :
               conversations'[i].id = currentConversationId']_vars

\* C21 as stated: when no pattern matches the text the user entered, the
\* message argument of the send_message call equals the text entered.
C21_CleanInputSentAsEntered ==
    [][\A c \in sends' \ sends :
           detected(message) = <<>> => c.message = message]_vars

\* C21, amended: when no pattern matches the text the user entered, the
\* message argument of the send_message call is the text entered without
\* its leading and trailing white space (a stretch of the text that neither
\* starts nor ends with white space, everything outside it white space), it
\* is still clean, and it is the content of the user message stored.
C21_CleanInputSentTrimmed ==
    [][\A c \in sends' \ sends :
           detected(message) = <<>> =>
               /\ \E i, j \in 1..Len(message) :
                      /\ c.message = SubSeq(message, i, j)
                      /\ message[i] \notin WhiteSpace
                      /\ message[j] \notin WhiteSpace
                      /\ \A k \in 1..Len(message) :
                             (k < i \/ k > j) => message[k] \in WhiteSpace
               /\ detected(c.message) = <<>>
               /\ messages'[Len(messages')].role = "user"
               /\ messages'[Len(messages')].content = c.message]_vars

\* C21 witness: the text " hi " has been sent, as "hi".
C21_PaddedTextSent ==
    \E c \in sends : c.message = <<"h", "i">>

\* C22: the theme an earlier session saved to local storage is the active
\* theme once the startup effects have run.
C22_SavedThemeRestored ==
    [][(startup # "done" /\ startup' = "done" /\ savedTheme # NoTheme) =>
           theme' = savedTheme]_vars

\* C23: isLoading is true in every state in which a send_message or a
\* process_document call is in flight.
C23_LoadingWhileInFlight ==
    (sends # {} \/ \E u \in uploads : u.pc = "process") => isLoading

\* C24: a reply, assistant or error, is appended to a log that holds the
\* user message of its send, after that message.
C24_ReplyFollowsItsUserMessage ==
    [][\A c \in sends \ sends' :
           \E i \in 1..Len(messages') :
               /\ i < Len(messages')
               /\ messages'[i].role = "user"
               /\ messages'[i].content = c.message
               /\ messages'[Len(messages')].role \in {"assistant", "system"}]_vars

\* the file name of PathB
NameB == <<"b", ".", "p", "d", "f">>
LastMessage(log) == log[Len(log)]
OneAppended(log, log2) ==
    Len(log2) = Len(log) + 1 /\ SubSeq(log2, 1, Len(log)) = log

\* C25: upload protocol.  When a file is selected the 'Uploaded' notice
\* with the file's name is appended and process_document is called with the
\* path; when that call returns exactly one message is appended, 'Document
\* processed' with the file's name or 'Failed to process document' with the
\* error, the upload is over and isLoading is false; when the dialog is
\* cancelled no message is appended, no call is made and isLoading is false.
C25_UploadProtocol ==
    [][\A u \in uploads :
        /\ (u.pc = "dialog" /\ \E u2 \in uploads' : u2.id = u.id /\ u2.pc = "process") =>
               /\ OneAppended(messages, messages')
               /\ LastMessage(messages').role = "system"
               /\ \A u2 \in uploads' :
                      (u2.id = u.id /\ u2.filePath = PathB) =>
                          LastMessage(messages').content = UploadedPrefix \o NameB
               /\ \A u2 \in uploads' : u2.id = u.id => u2.filePath \in Paths
               /\ isLoading'
        /\ (u.pc = "process" /\ u \notin uploads') =>
               /\ \A u2 \in uploads' : u2.id # u.id
               /\ OneAppended(messages, messages')
               /\ LastMessage(messages').role = "system"
               /\ \/ /\ u.filePath = PathB
                     /\ LastMessage(messages').content = ProcessedPrefix \o NameB
                  \/ \E error \in Errors :
                         LastMessage(messages').content = FailedPrefix \o error
               /\ ~isLoading'
        /\ DialogCancelled(u) =>
               /\ messages' = messages
               /\ \A u2 \in uploads' : u2.id # u.id
               /\ ~isLoading']_vars

\* C25 witness: an upload has run to its end: the 'Uploaded' notice is
\* followed by the 'Document processed' notice, both naming b.pdf, no upload
\* is left and isLoading is false.
C25_UploadCompleted ==
    /\ uploads = {}
    /\ ~isLoading
    /\ \E i \in 1..Len(messages) :
           /\ i + 1 <= Len(messages)
           /\ messages[i].content = UploadedPrefix \o NameB
           /\ messages[i + 1].content = ProcessedPrefix \o NameB

Categories == <<"SSN", "Email", "Phone", "Credit Card", "IP Address">>
CategoryIndex(type) == CHOOSE n \in 1..Len(Categories) : Categories[n] = type
Matching(t) == {patterns[n].type : n \in {k \in 1..Len(patterns) : Test(patterns[k].regex, t)}}

\* C26: PIIGuard reports presence per category.  Every change of the text
\* (and the mount) fires exactly one callback: onPIIDetected if a category
\* pattern matches the text, onPIICleared otherwise.  The detected list
\* holds the matching categories, each once, in the order SSN, Email,
\* Phone, Credit Card, IP Address; the empty text gives the empty list and
\* onPIICleared.
C26_PresencePerCategory ==
    /\ [][(guardText' # guardText \/ guardMounted' # guardMounted) =>
              /\ Len(callbacks') = Len(callbacks) + 1
              /\ SubSeq(callbacks', 1, Len(callbacks)) = callbacks]_vars
    /\ [](guardMounted =>
              /\ callbacks[Len(callbacks)] =
                     (IF Matching(guardText) # {} THEN "onPIIDetected"
                                                  ELSE "onPIICleared")
              /\ Range(detectedPII) = Matching(guardText)
              /\ Range(detectedPII) \subseteq Range(Categories)
              /\ \A i, j \in 1..Len(detectedPII) :
                     i < j => CategoryIndex(detectedPII[i])
                                  < CategoryIndex(detectedPII[j])
              /\ guardText = <<>> =>
                     detectedPII = <<>> /\ callbacks[Len(callbacks)] = "onPIICleared"
              /\ guardText = TextMixed => detectedPII = <<"SSN", "Email">>
              /\ guardText = TextCard => detectedPII = <<"Credit Card">>
              /\ guardText = TextPadded => detectedPII = <<>>)

\* C26 witness: a text with two categories was followed by the empty text:
\* onPIIDetected, then onPIICleared with the list empty again.
C26_DetectedThenCleared ==
    /\ guardMounted
    /\ guardText = <<>>
    /\ detectedPII = <<>>
    /\ Len(callbacks) >= 2
    /\ callbacks[Len(callbacks) - 1] = "onPIIDetected"
    /\ callbacks[Len(callbacks)] = "onPIICleared"

====
